---- MODULE Spec2Model ----
(***************************************************************************)
(* Model of the synthesizer-agent route (src/app/api/synthesizer-agent/    *)
(* route.ts): the cold-start path index, the keyword prefilter, the        *)
(* selector-response validation and the POST handler's request life cycle. *)
(*                                                                         *)
(* Strings are sequences of one-character strings, so that trim, slice,    *)
(* toLowerCase, split and includes are computed character by character.    *)
(***************************************************************************)
EXTENDS Integers, Sequences, FiniteSets, TLC

(* ---------------------------------------------------------------- config *)

MAX_QUESTION_LEN == 1000
PREFILTER_TOP_K == 50
MAX_SELECTED == 4
PREVIEW_LEN == 500

(* ---------------------------------------------------------------- bounds *)

\* rows of the CSV source enumerated for the index builder
MaxRows == 3
\* documents of the index enumerated for the ranker
MaxDocs == 3
\* the ranker's k parameter ranges over 0..MaxK
MaxK == 2
\* requests handled by one process
MaxReqs == 2
\* elements of a selected_indices array, enumerated exhaustively
MaxArr == 3
\* candidates handed to the selection step
MaxCands == 5
\* characters of a query enumerated for the ranker
MaxQueryLen == 3

(* ---------------------------------------------------- JavaScript strings *)

\* String.prototype.trim: white space is the character " "
IsSpace(c) == c = " "

\* the class \w of a regular expression
IsWordChar(c) == c \in {"a", "b", "c", "A", "B", "C", "1", "2", "_"}

LowerChar(c) ==
  CASE c = "A" -> "a"
    [] c = "B" -> "b"
    [] c = "C" -> "c"
    [] OTHER -> c

toLowerCase(s) == [i \in 1..Len(s) |-> LowerChar(s[i])]

\* s.slice(0, n) for n >= 0
Slice(s, n) == SubSeq(s, 1, IF Len(s) < n THEN Len(s) ELSE n)

Trim(s) ==
  IF \A i \in 1..Len(s) : IsSpace(s[i]) THEN <<>>
  ELSE LET first == CHOOSE i \in 1..Len(s) :
                      /\ ~IsSpace(s[i])
                      /\ \A j \in 1..(i - 1) : IsSpace(s[j])
           last == CHOOSE i \in 1..Len(s) :
                      /\ ~IsSpace(s[i])
                      /\ \A j \in (i + 1)..Len(s) : IsSpace(s[j])
       IN SubSeq(s, first, last)

\* hay.includes(t)
Includes(hay, t) ==
  \E k \in 0..(Len(hay) - Len(t)) : SubSeq(hay, k + 1, k + Len(t)) = t

\* parts.join(sep)
RECURSIVE Join(_, _)
Join(parts, sep) ==
  IF parts = <<>> THEN <<>>
  ELSE IF Len(parts) = 1 THEN parts[1]
  ELSE parts[1] \o sep \o Join(Tail(parts), sep)

\* the p-th smallest element of a finite set of integers
NthOf(S, p) == CHOOSE i \in S : Cardinality({j \in S : j < i}) = p - 1

\* query.toLowerCase().split(/\W+/).filter(Boolean): the maximal runs of word
\* characters, in order, repeated words kept
terms(query) ==
  LET q == toLowerCase(query)
      n == Len(q)
      starts == {i \in 1..n : IsWordChar(q[i]) /\ (i = 1 \/ ~IsWordChar(q[i - 1]))}
      stop(i) == CHOOSE j \in i..n :
                   /\ j = n \/ ~IsWordChar(q[j + 1])
                   /\ \A m \in i..j : IsWordChar(q[m])
  IN [p \in 1..Cardinality(starts) |->
        SubSeq(q, NthOf(starts, p), stop(NthOf(starts, p)))]

(* ------------------------------------------------------------ path index *)

PathDoc(path, contents) ==
  [path |-> path, contents |-> contents,
   preview |-> Slice(Join(contents, <<" ">>), PREVIEW_LEN)]

\* a row a plausible slip would keep: only its path is looked at
SkipRowPathOnly(path, content) == path = <<>>

\* if (!path || !content) continue
SkipRow(path, content) == path = <<>> \/ content = <<>>

\* the Map built by the loop over the rows: entries in insertion order
RECURSIVE GroupRows(_, _)
GroupRows(rows, map) ==
  IF rows = <<>> THEN map
  ELSE LET path == Trim(Head(rows).Path)
           content == Trim(Head(rows).Content)
       IN IF SkipRow(path, content) THEN GroupRows(Tail(rows), map)
          ELSE IF \E i \in 1..Len(map) : map[i].path = path
          THEN LET i == CHOOSE i \in 1..Len(map) : map[i].path = path
               IN GroupRows(Tail(rows),
                            [map EXCEPT ![i].contents = Append(@, content)])
          ELSE GroupRows(Tail(rows),
                         Append(map, [path |-> path, contents |-> <<content>>]))

\* the index loadPathIndex builds from the parsed rows
BuildIndex(rows) ==
  LET map == GroupRows(rows, <<>>)
  IN [i \in 1..Len(map) |-> PathDoc(map[i].path, map[i].contents)]

(* --------------------------------------------------------------- ranking *)

\* a score that counts a repeated query word once
scoreDistinctTerms(hay, query) ==
  LET ts == terms(query)
      low == toLowerCase(hay)
  IN Cardinality({ts[i] : i \in {j \in 1..Len(ts) : Includes(low, ts[j])}})

score(hay, query) ==
  LET ts == terms(query)
      low == toLowerCase(hay)
  IN Cardinality({i \in 1..Len(ts) : Includes(low, ts[i])})

\* the score without the double weight of the path
DocScoreUnweighted(doc, query) == score(doc.path, query) + score(doc.preview, query)

DocScore(doc, query) == score(doc.path, query) * 2 + score(doc.preview, query)

\* an insertion that moves a new entry ahead of entries of equal score
RECURSIVE InsertRankedUnstable(_, _)
InsertRankedUnstable(sorted, e) ==
  IF sorted = <<>> THEN <<e>>
  ELSE IF Head(sorted).s <= e.s THEN <<e>> \o sorted
  ELSE <<Head(sorted)>> \o InsertRankedUnstable(Tail(sorted), e)

\* Array.prototype.sort with (a, b) => b.s - a.s: a stable sort, equal scores
\* keep their order
RECURSIVE InsertRanked(_, _)
InsertRanked(sorted, e) ==
  IF sorted = <<>> THEN <<e>>
  ELSE IF Head(sorted).s < e.s THEN <<e>> \o sorted
  ELSE <<Head(sorted)>> \o InsertRanked(Tail(sorted), e)

RECURSIVE SortRanked(_)
SortRanked(entries) ==
  IF entries = <<>> THEN <<>>
  ELSE InsertRanked(SortRanked(SubSeq(entries, 1, Len(entries) - 1)),
                    entries[Len(entries)])

\* topPathCandidates over an already loaded index
RankIndex(index, query, k) ==
  LET ranked == SortRanked([i \in 1..Len(index) |->
                  [idx |-> i - 1, doc |-> index[i], s |-> DocScore(index[i], query)]])
  IN SubSeq(ranked, 1, IF k < Len(ranked) THEN k ELSE Len(ranked))

(* ------------------------------------------------- selector response JSON *)

\* A JSON value: t is its type, n a number's or boolean's value, s a string's
\* text, a an array's elements; an object keeps in a the value of its
\* selected_indices property when it has one.
JVal(t, n, s, a) == [t |-> t, n |-> n, s |-> s, a |-> a]
JUndefined == JVal("undefined", 0, "", <<>>)
JNull == JVal("null", 0, "", <<>>)
JNum(i) == JVal("num", i, "", <<>>)
JFrac == JVal("frac", 0, "1.5", <<>>)
JStr(s) == JVal("str", 0, s, <<>>)
JBool(b) == JVal("bool", IF b THEN 1 ELSE 0, "", <<>>)
JArr(a) == JVal("arr", 0, "", a)
JObjEmpty == JVal("obj", 0, "", <<>>)
JObjSel(v) == JVal("obj", 0, "", <<v>>)

\* the message content of the selector completion
RawNone == [kind |-> "none", v |-> JUndefined]
RawMalformed == [kind |-> "malformed", v |-> JUndefined]
RawJson(v) == [kind |-> "json", v |-> v]

NaN == [int |-> FALSE, n |-> 0]
IntNum(i) == [int |-> TRUE, n |-> i]

\* Number(s) of the strings that occur in the responses
StrNumber(s) ==
  CASE s = "" -> IntNum(0)
    [] s = "1" -> IntNum(1)
    [] s = "2" -> IntNum(2)
    [] s = " 3 " -> IntNum(3)
    [] s = "2.0" -> IntNum(2)
    [] OTHER -> NaN

\* Number(x), with Number.isInteger of the result
RECURSIVE Number(_)
Number(x) ==
  CASE x.t = "num" -> IntNum(x.n)
    [] x.t = "frac" -> NaN
    [] x.t = "str" -> StrNumber(x.s)
    [] x.t = "bool" -> IntNum(x.n)
    [] x.t = "null" -> IntNum(0)
    [] x.t = "arr" -> IF x.a = <<>> THEN IntNum(0)
                      ELSE IF Len(x.a) > 1 THEN NaN
                      ELSE IF x.a[1].t \in {"null", "undefined"} THEN IntNum(0)
                      ELSE IF x.a[1].t \in {"bool", "obj"} THEN NaN
                      ELSE Number(x.a[1])
    [] OTHER -> NaN

RECURSIVE NumbersOf(_)
NumbersOf(a) ==
  IF a = <<>> THEN <<>>
  ELSE LET n == Number(Head(a))
       IN (IF n.int THEN <<n.n>> ELSE <<>>) \o NumbersOf(Tail(a))

toNumberArray(v) == IF v.t # "arr" THEN <<>> ELSE NumbersOf(v.a)

\* the try/catch around JSON.parse(content || "{}")
ParsePayload(raw) == IF raw.kind = "json" THEN raw.v ELSE JObjEmpty

\* payload.selected_indices raises a TypeError on null
PayloadThrows(payload) == payload.t = "null"

SelectedIndices(payload) ==
  IF payload.t = "obj" /\ payload.a # <<>> THEN payload.a[1] ELSE JUndefined

\* the .filter((n) => n >= 1 && n <= ranked.length)
InRange(n, len) == n >= 1 /\ n <= len

RECURSIVE FilterRange(_, _)
FilterRange(nums, len) ==
  IF nums = <<>> THEN <<>>
  ELSE (IF InRange(Head(nums), len) THEN <<Head(nums)>> ELSE <<>>)
       \o FilterRange(Tail(nums), len)

\* Array.from(new Set(xs)): first occurrences, in order
RECURSIVE Unique(_)
Unique(xs) ==
  IF xs = <<>> THEN <<>>
  ELSE LET init == Unique(SubSeq(xs, 1, Len(xs) - 1))
           x == xs[Len(xs)]
       IN IF \E i \in 1..Len(init) : init[i] = x THEN init ELSE Append(init, x)

Fallback(len) == SubSeq(<<1, 2, 3>>, 1, IF len < 3 THEN len ELSE 3)

ChosenIdxes(payload, len) ==
  LET selected == FilterRange(toNumberArray(SelectedIndices(payload)), len)
      unique == Slice(Unique(selected), MAX_SELECTED)
  IN IF Len(unique) > 0 THEN unique ELSE Fallback(len)

\* the loop that pulls the documents: st holds the documents picked so far, the
\* positions dereferenced, and whether ranked[oneBased - 1] was undefined
RECURSIVE PickLoop(_, _, _)
PickLoop(ranked, idxes, st) ==
  IF idxes = <<>> \/ st.threw THEN st
  ELSE LET oneBased == Head(idxes)
           out == [st EXCEPT !.derefs = Append(@, oneBased)]
       IN IF ~(oneBased \in 1..Len(ranked)) THEN [out EXCEPT !.threw = TRUE]
          ELSE LET doc == ranked[oneBased].doc
                   seen == \E i \in 1..Len(st.picked) : st.picked[i].path = doc.path
                   nxt == IF seen THEN out
                          ELSE [out EXCEPT !.picked = Append(@, doc)]
               IN IF Len(nxt.picked) >= MAX_SELECTED THEN nxt
                  ELSE PickLoop(ranked, Tail(idxes), nxt)

NoSelection == [threw |-> FALSE, chosenIdxes |-> <<>>, picked |-> <<>>, derefs |-> <<>>]

\* lines 231-259 of POST: parse, validate, fall back, pull the documents
SelectionStep(ranked, raw) ==
  LET payload == ParsePayload(raw)
  IN IF PayloadThrows(payload) THEN [NoSelection EXCEPT !.threw = TRUE]
     ELSE LET chosen == ChosenIdxes(payload, Len(ranked))
          IN PickLoop(ranked, chosen, [NoSelection EXCEPT !.chosenIdxes = chosen])

(* ------------------------------------------------------------- prompts *)

\* buildSelectorPrompt: the question and the numbered listing
buildSelectorPrompt(question, cands) ==
  [question |-> question,
   listing |-> [i \in 1..Len(cands) |->
                  [number |-> i, path |-> cands[i].doc.path,
                   preview |-> cands[i].doc.preview]]]

\* buildAnswerPrompt: the question and one path-tagged block per document
buildAnswerPrompt(question, pickedDocs) ==
  [question |-> question,
   ctx |-> [i \in 1..Len(pickedDocs) |->
              [tag |-> pickedDocs[i].path,
               full |-> Join(pickedDocs[i].contents, <<"\n", "\n">>)]]]

\* the source lines numbered from the array index, without the + 1
SourcesZeroBased(pickedDocs) ==
  [i \in 1..Len(pickedDocs) |-> [number |-> i - 1, bold |-> pickedDocs[i].path]]

\* the numbered, bold source lines appended to the answer
Sources(pickedDocs) ==
  [i \in 1..Len(pickedDocs) |-> [number |-> i, bold |-> pickedDocs[i].path]]

(* ----------------------------------------------------------------- state *)

VARIABLES
  apiKey,      \* whether process.env.OPENAI_API_KEY is set
  PATH_INDEX,  \* the cold-start cache: loaded is FALSE while it is null
  source,      \* Meta.csv on disk: whether it reads and parses, and its rows
  reads,       \* readFileSync calls made so far
  req,         \* per request: the handler's position and its locals
  args,        \* arguments of a function applied on its own
  result       \* what the function returned

vars == <<apiKey, PATH_INDEX, source, reads, req, args, result>>

Reqs == 1..MaxReqs

NoCache == [loaded |-> FALSE, docs |-> <<>>]
Cached(index) == [loaded |-> TRUE, docs |-> index]

Row(path, content) == [Path |-> path, Content |-> content]
Readable(rows) == [readable |-> TRUE, rows |-> rows]
Unreadable == [readable |-> FALSE, rows |-> <<>>]

(* ------------------------------------------------------------- responses *)

Advice(text) == [text |-> text, answer |-> <<>>, sources |-> <<>>]
NoAdvice == Advice("")
ConfigAdvice ==
  Advice("OPENAI_API_KEY is missing. Set it in Vercel -> Project Settings -> Environment Variables.")
AskAdvice == Advice("Please provide a question.")
NoContentAdvice ==
  Advice("No content available yet. Ensure public/data/meta.csv exists with Path and Content rows.")
ServerErrorAdvice ==
  Advice("Server error while generating answer. Check logs & environment variables.")
\* `${answerText}\n\nSources:\n${sources}`
AnswerAdvice(answerText, sources) ==
  [text |-> "Sources:", answer |-> answerText, sources |-> sources]

NoPrompt == [question |-> <<>>, listing |-> <<>>]
NoAnswerPrompt == [question |-> <<>>, ctx |-> <<>>]
NoBody == [parses |-> FALSE, has |-> FALSE, userScenario |-> <<>>]

IdleReq ==
  [pc |-> "idle", body |-> NoBody, question |-> <<>>, ranked |-> <<>>,
   rankedAt |-> FALSE, raw |-> RawNone, sel |-> NoSelection,
   selectorMsgs |-> NoPrompt, answerMsgs |-> NoAnswerPrompt,
   answerText |-> <<>>, status |-> 0, advice |-> NoAdvice, logged |-> "",
   loads |-> 0, selCalls |-> 0, selReturned |-> FALSE, ansCalls |-> 0]

\* NextResponse.json(advice, {status}); what the catch block logged, if anything
Respond(rec, status, advice, logged) ==
  [rec EXCEPT !.pc = "done", !.status = status, !.advice = advice,
              !.logged = logged]

\* the catch block of POST: log the error, answer with the fixed advisory
CatchError(rec, err) == Respond(rec, 500, ServerErrorAdvice, err)

(* --------------------------------------------------------- the index cache *)

\* a truthiness test on the length: an empty index counts as not loaded
CacheHitNonEmpty(cache) == cache.loaded /\ Len(cache.docs) > 0

\* if (PATH_INDEX) return PATH_INDEX: an empty array is truthy
CacheHit(cache) == cache.loaded

\* loadPathIndex: the documents returned, the cache afterwards, whether the
\* file was read and whether the read or the parse threw
loadPathIndex(cache, src) ==
  IF CacheHit(cache)
  THEN [threw |-> FALSE, docs |-> cache.docs, cache |-> cache, read |-> 0]
  ELSE IF ~src.readable
  THEN [threw |-> TRUE, docs |-> <<>>, cache |-> cache, read |-> 1]
  ELSE [threw |-> FALSE, docs |-> BuildIndex(src.rows),
        cache |-> Cached(BuildIndex(src.rows)), read |-> 1]

topPathCandidates(query, k, cache, src) ==
  LET l == loadPathIndex(cache, src)
  IN [threw |-> l.threw, cache |-> l.cache, read |-> l.read,
      ranked |-> IF l.threw THEN <<>> ELSE RankIndex(l.docs, query, k)]

(* ------------------------------------------------------------ the handler *)

\* (body?.userScenario ?? "").toString() after req.json().catch(() => ({}))
UserScenario(body) ==
  IF body.parses /\ body.has THEN body.userScenario ELSE <<>>

\* the clamp without the trim
QuestionNoTrim(userScenario) == Slice(userScenario, MAX_QUESTION_LEN)

\* the clamp with the trim applied before the cut
QuestionTrimFirst(userScenario) == Slice(Trim(userScenario), MAX_QUESTION_LEN)

Question(userScenario) == Trim(Slice(userScenario, MAX_QUESTION_LEN))

\* the request arrives: the key check, then the await of req.json()
Receive(r, body) ==
  /\ req[r].pc = "idle"
  /\ req' = [req EXCEPT ![r] =
       IF ~apiKey THEN Respond([@ EXCEPT !.body = body], 500, ConfigAdvice, "")
       ELSE [@ EXCEPT !.pc = "body", !.body = body]]
  /\ UNCHANGED <<apiKey, PATH_INDEX, source, reads, args, result>>

\* from the parsed body to the selector call: clamp the question, rank the
\* index, build the selector prompt and issue the completion
AfterBody(rec, cache, src) ==
  LET question == Question(UserScenario(rec.body))
      top == topPathCandidates(question, PREFILTER_TOP_K, cache, src)
      asked == [rec EXCEPT !.question = question]
      loaded == [asked EXCEPT !.loads = @ + 1]
      ranked == [loaded EXCEPT !.ranked = top.ranked, !.rankedAt = TRUE]
  IN IF question = <<>>
     THEN [rec |-> Respond(asked, 400, AskAdvice, ""), cache |-> cache, read |-> 0]
     ELSE IF top.threw
     THEN [rec |-> CatchError(loaded, "ENOENT"), cache |-> top.cache,
           read |-> top.read]
     ELSE IF Len(top.ranked) = 0
     THEN [rec |-> Respond(ranked, 200, NoContentAdvice, ""), cache |-> top.cache,
           read |-> top.read]
     ELSE [rec |-> [ranked EXCEPT
                      !.pc = "selector",
                      !.selectorMsgs = buildSelectorPrompt(question, top.ranked),
                      !.selCalls = @ + 1],
           cache |-> top.cache, read |-> top.read]

Prefilter(r) ==
  /\ req[r].pc = "body"
  /\ LET out == AfterBody(req[r], PATH_INDEX, source)
     IN /\ req' = [req EXCEPT ![r] = out.rec]
        /\ PATH_INDEX' = out.cache
        /\ reads' = reads + out.read
  /\ UNCHANGED <<apiKey, source, args, result>>

\* the selector completion resolved: select, pull the documents, build the
\* answer prompt and issue the second completion
AfterSelector(rec, raw) ==
  LET sel == SelectionStep(rec.ranked, raw)
      got == [rec EXCEPT !.raw = raw, !.sel = sel, !.selReturned = TRUE]
  IN IF sel.threw THEN CatchError(got, "TypeError")
     ELSE [got EXCEPT !.pc = "answer",
                      !.answerMsgs = buildAnswerPrompt(rec.question, sel.picked),
                      !.ansCalls = @ + 1]

SelectorReturns(r, raw) ==
  /\ req[r].pc = "selector"
  /\ req' = [req EXCEPT ![r] = AfterSelector(@, raw)]
  /\ UNCHANGED <<apiKey, PATH_INDEX, source, reads, args, result>>

\* a handler that issues the selection call again when it fails
AfterSelectorErrorRetry(rec, err) == [rec EXCEPT !.selCalls = @ + 1]

\* the selector completion rejected (network, quota, non-2xx)
AfterSelectorError(rec, err) == CatchError(rec, err)

SelectorFails(r, err) ==
  /\ req[r].pc = "selector"
  /\ req' = [req EXCEPT ![r] = AfterSelectorError(@, err)]
  /\ UNCHANGED <<apiKey, PATH_INDEX, source, reads, args, result>>

\* the answer completion resolved: trim it, append the sources, respond
AfterAnswer(rec, content) ==
  LET answerText == Trim(content)
  IN Respond([rec EXCEPT !.answerText = answerText], 200,
             AnswerAdvice(answerText, Sources(rec.sel.picked)), "")

AnswerReturns(r, content) ==
  /\ req[r].pc = "answer"
  /\ req' = [req EXCEPT ![r] = AfterAnswer(@, content)]
  /\ UNCHANGED <<apiKey, PATH_INDEX, source, reads, args, result>>

AfterAnswerError(rec, err) == CatchError(rec, err)

AnswerFails(r, err) ==
  /\ req[r].pc = "answer"
  /\ req' = [req EXCEPT ![r] = AfterAnswerError(@, err)]
  /\ UNCHANGED <<apiKey, PATH_INDEX, source, reads, args, result>>

\* the file on disk is replaced, removed or restored while the process runs
SourceChanges(src) ==
  /\ src # source
  /\ source' = src
  /\ UNCHANGED <<apiKey, PATH_INDEX, reads, req, args, result>>

(* ---------------------------------------------------------------- inputs *)

Corpus ==
  <<Row(<<"A", "b">>, <<"a", " ", "b">>), Row(<<" ">>, <<"x">>),
    Row(<<"c">>, <<"b">>), Row(<<"A", "b">>, <<"c">>)>>

SourceStates == {Unreadable, Readable(<<>>), Readable(Corpus)}

Bodies ==
  {NoBody,
   [parses |-> TRUE, has |-> FALSE, userScenario |-> <<>>],
   [parses |-> TRUE, has |-> TRUE, userScenario |-> <<" ", " ">>],
   [parses |-> TRUE, has |-> TRUE, userScenario |-> <<" ", "b", " ", "B", " ">>]}

SelectorBodies ==
  {RawNone, RawMalformed,
   RawJson(JNum(5)), RawJson(JStr("x")), RawJson(JArr(<<JNum(1)>>)),
   RawJson(JNull), RawJson(JObjEmpty),
   RawJson(JObjSel(JStr("not-an-array"))),
   RawJson(JObjSel(JArr(<<>>))),
   RawJson(JObjSel(JArr(<<JNum(0), JFrac, JStr("x"), JNum(3)>>))),
   RawJson(JObjSel(JArr(<<JNum(2), JNum(2), JStr("1"), JNum(7)>>)))}

AnswerContents == {<<"o", "k", " ">>, <<>>}

Errors == {"429"}

Init ==
  /\ apiKey \in BOOLEAN
  /\ PATH_INDEX = NoCache
  /\ source \in SourceStates
  /\ reads = 0
  /\ req = [r \in Reqs |-> IdleReq]
  /\ args = <<>>
  /\ result = <<>>

Next ==
  \/ \E r \in Reqs, body \in Bodies : Receive(r, body)
  \/ \E r \in Reqs : Prefilter(r)
  \/ \E r \in Reqs, raw \in SelectorBodies : SelectorReturns(r, raw)
  \/ \E r \in Reqs, err \in Errors : SelectorFails(r, err)
  \/ \E r \in Reqs, content \in AnswerContents : AnswerReturns(r, content)
  \/ \E r \in Reqs, err \in Errors : AnswerFails(r, err)
  \/ \E src \in SourceStates : SourceChanges(src)

Spec == Init /\ [][Next]_vars

(* ------------------------------------------------ loadPathIndex on its own *)

RowPaths == {<<"a">>, <<" ", "a", " ">>, <<"b">>, <<" ">>, <<>>}
RowContents == {<<"x">>, <<" ", "y">>, <<" ">>}
RowSet == {Row(p, c) : p \in RowPaths, c \in RowContents}
RowSeqs == UNION {[1..n -> RowSet] : n \in 0..MaxRows}

InitLoad ==
  /\ apiKey = TRUE
  /\ PATH_INDEX = NoCache
  /\ source \in {Readable(rows) : rows \in RowSeqs}
  /\ reads = 0
  /\ req = [r \in Reqs |-> IdleReq]
  /\ args = <<>>
  /\ result = <<>>

\* one call of loadPathIndex()
Load ==
  /\ LET l == loadPathIndex(PATH_INDEX, source)
     IN /\ PATH_INDEX' = l.cache
        /\ reads' = reads + l.read
        /\ result' = l.docs
  /\ UNCHANGED <<apiKey, source, req, args>>

SpecLoad == InitLoad /\ [][Load]_vars

(* --------------------------------------------- topPathCandidates on its own *)

DocPool ==
  {PathDoc(<<"A">>, <<<<"b">>>>),
   PathDoc(<<"b">>, <<<<"a", " ", "a">>>>),
   PathDoc(<<"a", "&", "b">>, <<<<"c">>>>),
   PathDoc(<<"c">>, <<<<"B">>, <<"a">>>>)}

Indexes ==
  {ix \in UNION {[1..n -> DocPool] : n \in 0..MaxDocs} :
     \A i, j \in 1..Len(ix) : i # j => ix[i].path # ix[j].path}

QueryChars == {"a", "B", " "}
Queries == UNION {[1..n -> QueryChars] : n \in 0..MaxQueryLen}

NotCalled == [called |-> FALSE, ranked |-> <<>>]

InitRank ==
  /\ apiKey = TRUE
  /\ PATH_INDEX \in {Cached(ix) : ix \in Indexes}
  /\ source = Unreadable
  /\ reads = 0
  /\ req = [r \in Reqs |-> IdleReq]
  /\ args \in [query : Queries, k : 0..MaxK]
  /\ result = NotCalled

\* one call of topPathCandidates(query, k)
Rank ==
  /\ LET top == topPathCandidates(args.query, args.k, PATH_INDEX, source)
     IN /\ ~top.threw
        /\ PATH_INDEX' = top.cache
        /\ reads' = reads + top.read
        /\ result' = [called |-> TRUE, ranked |-> top.ranked]
  /\ UNCHANGED <<apiKey, source, req, args>>

SpecRank == InitRank /\ [][Rank]_vars

(* ------------------------------------------------ the selection step alone *)

Pad(n, c) == [i \in 1..n |-> c]

\* n candidates with distinct paths, as the prefilter ranks them
Candidates(n) ==
  RankIndex(BuildIndex([i \in 1..n |-> Row(Pad(i, "a"), <<"x">>)]),
            <<"a", "a">>, PREFILTER_TOP_K)

Elems ==
  {JNum(-1), JNum(0), JNum(1), JNum(2), JNum(3), JNum(6), JFrac, JStr("2"),
   JStr("x"), JNull, JBool(TRUE), JArr(<<JNum(1)>>)}

Arrays == UNION {[1..n -> Elems] : n \in 0..MaxArr}

LongArrays ==
  {<<JNum(1), JNum(2), JNum(3), JNum(4), JNum(5)>>,
   <<JNum(5), JNum(4), JNum(3), JNum(2), JNum(1), JNum(1)>>,
   <<JNum(6), JNum(5), JNum(5), JStr("2"), JNum(4), JNum(3), JNum(2), JNum(1)>>,
   <<JNum(0), JNum(3), JNum(3), JNum(4), JNum(4), JNum(5), JNum(1)>>}

SelectRaws ==
  SelectorBodies \cup {RawJson(JObjSel(JArr(a))) : a \in Arrays \cup LongArrays}

InitSelect ==
  /\ apiKey = TRUE
  /\ PATH_INDEX = NoCache
  /\ source = Unreadable
  /\ reads = 0
  /\ req = [r \in Reqs |-> IdleReq]
  /\ args \in [ranked : {Candidates(n) : n \in 1..MaxCands}, raw : SelectRaws]
  /\ result = [called |-> FALSE, sel |-> NoSelection]

\* the selection step of POST applied to one response
Select ==
  /\ result' = [called |-> TRUE, sel |-> SelectionStep(args.ranked, args.raw)]
  /\ UNCHANGED <<apiKey, PATH_INDEX, source, reads, req, args>>

SpecSelect == InitSelect /\ [][Select]_vars

(* -------------------------------------------- the handler at the size clamp *)

LongBody(userScenario) ==
  [parses |-> TRUE, has |-> TRUE, userScenario |-> userScenario]

ClampBodies ==
  {LongBody(<<" ", "a", " ">>),
   LongBody(Pad(MAX_QUESTION_LEN, "a")),
   LongBody(Pad(MAX_QUESTION_LEN, "a") \o <<"b">>),
   LongBody(<<" ">> \o Pad(MAX_QUESTION_LEN, "a")),
   LongBody(Pad(MAX_QUESTION_LEN - 1, "a") \o <<" ", "b">>),
   LongBody(Pad(MAX_QUESTION_LEN, " ") \o <<"a">>),
   LongBody(<<"a">> \o Pad(MAX_QUESTION_LEN, " ") \o <<"b">>)}

\* one request at a time: the clamp is local to a request
NextClamp ==
  \/ \E body \in ClampBodies : Receive(1, body)
  \/ Prefilter(1)
  \/ \E raw \in {RawNone, RawJson(JObjSel(JArr(<<JNum(2)>>)))} : SelectorReturns(1, raw)
  \/ \E err \in Errors : SelectorFails(1, err)
  \/ \E content \in AnswerContents : AnswerReturns(1, content)
  \/ \E err \in Errors : AnswerFails(1, err)

InitClamp ==
  /\ apiKey \in BOOLEAN
  /\ PATH_INDEX = NoCache
  /\ source \in SourceStates
  /\ reads = 0
  /\ req = [r \in Reqs |-> IdleReq]
  /\ args = <<>>
  /\ result = <<>>

SpecClamp == InitClamp /\ [][NextClamp]_vars

(* ================================================================ claims *)

\* the first n elements of a sequence
Take(seq, n) == SubSeq(seq, 1, IF Len(seq) < n THEN Len(seq) ELSE n)

PathsOf(docs) == [i \in 1..Len(docs) |-> docs[i].path]

DistinctPaths(docs) ==
  \A i, j \in 1..Len(docs) : i # j => docs[i].path # docs[j].path

(* ---- C1 ---- *)

\* the documents picked are 1..4, pairwise distinct by path, and each is the
\* candidate at the listing position dereferenced for it
PickedFromListing(sel, ranked) ==
  /\ Len(sel.picked) \in 1..MAX_SELECTED
  /\ DistinctPaths(sel.picked)
  /\ Len(sel.derefs) = Len(sel.picked)
  /\ \A i \in 1..Len(sel.picked) : sel.picked[i] = ranked[sel.derefs[i]].doc

\* C1: for every non-empty candidate list and every selector response, the
\* selection step picks between 1 and 4 documents with pairwise distinct paths,
\* each the candidate at a listing position within [1, candidate_count], and
\* dereferences no position outside the list.
C1_SelectionWithinBounds ==
  result.called =>
    /\ Len(args.ranked) \in 1..PREFILTER_TOP_K
    /\ \A i \in 1..Len(result.sel.derefs) :
         result.sel.derefs[i] \in 1..Len(args.ranked)
    /\ PickedFromListing(result.sel, args.ranked)

\* C1 on the responses the step survives: the same statement whenever the
\* selection step runs to its end (every response but the JSON text null)
C1_HoldsWhenStepCompletes ==
  result.called =>
    /\ \A i \in 1..Len(result.sel.derefs) :
         result.sel.derefs[i] \in 1..Len(args.ranked)
    /\ result.sel.threw <=> args.raw = RawJson(JNull)
    /\ ~result.sel.threw => PickedFromListing(result.sel, args.ranked)

\* five distinct in-range numbers were offered and the cap of four applied
C1_CapReached ==
  /\ result.called
  /\ ~result.sel.threw
  /\ Len(args.ranked) = 5
  /\ args.raw = RawJson(JObjSel(JArr(<<JNum(5), JNum(4), JNum(3), JNum(2), JNum(1), JNum(1)>>)))
  /\ result.sel.derefs = <<5, 4, 3, 2>>

(* ---- C4 ---- *)

TrimmedPath(rows, i) == Trim(rows[i].Path)
TrimmedContent(rows, i) == Trim(rows[i].Content)

\* the rows that contribute: path and content both non-empty after trimming
ContributingRows(rows) ==
  {i \in 1..Len(rows) : TrimmedPath(rows, i) # <<>> /\ TrimmedContent(rows, i) # <<>>}

RowsOfPath(rows, path) ==
  {i \in ContributingRows(rows) : TrimmedPath(rows, i) = path}

IndexGroupsRows(index, rows) ==
  /\ Len(index) = Cardinality({TrimmedPath(rows, i) : i \in ContributingRows(rows)})
  /\ {index[d].path : d \in 1..Len(index)}
       = {TrimmedPath(rows, i) : i \in ContributingRows(rows)}
  /\ \A d \in 1..Len(index) :
       LET mine == RowsOfPath(rows, index[d].path)
       IN index[d].contents =
            [p \in 1..Cardinality(mine) |-> TrimmedContent(rows, NthOf(mine, p))]
  /\ \A d, e \in 1..Len(index) :
       d < e => NthOf(RowsOfPath(rows, index[d].path), 1)
                  < NthOf(RowsOfPath(rows, index[e].path), 1)

\* C4: the index built from the rows holds exactly one document per distinct
\* trimmed path that has a row with non-empty trimmed content; rows whose path
\* or content trims to nothing contribute nothing; a document's fragments are its
\* rows' contents in row order; documents are in order of first occurrence.
C4_IndexGroupsRows ==
  PATH_INDEX.loaded => IndexGroupsRows(PATH_INDEX.docs, source.rows)

\* three rows: an empty-content row of path a first, then b, then a again
C4_Witness ==
  /\ PATH_INDEX.loaded
  /\ Len(source.rows) = 3
  /\ TrimmedPath(source.rows, 1) = <<"a">> /\ TrimmedContent(source.rows, 1) = <<>>
  /\ PathsOf(PATH_INDEX.docs) = <<<<"b">>, <<"a">>>>

(* ---- C6 ---- *)

\* entry x comes before entry y in the order: higher score, then earlier index
RankedBefore(xs, xi, ys, yi) == xs > ys \/ (xs = ys /\ xi < yi)

\* C6: topPathCandidates returns min(k, index size) entries, in non-increasing
\* score order with equal scores in index order, and they are the first k of that
\* order over the whole index.
C6_RankedOrder ==
  result.called =>
    LET ranked == result.ranked
        index == PATH_INDEX.docs
        inRanked == {ranked[i].idx : i \in 1..Len(ranked)}
    IN /\ Len(ranked) = (IF args.k < Len(index) THEN args.k ELSE Len(index))
       /\ \A i \in 1..Len(ranked) :
            /\ ranked[i].idx \in 0..(Len(index) - 1)
            /\ ranked[i].doc = index[ranked[i].idx + 1]
            /\ ranked[i].s = DocScore(ranked[i].doc, args.query)
       /\ \A i, j \in 1..Len(ranked) :
            i < j => RankedBefore(ranked[i].s, ranked[i].idx, ranked[j].s, ranked[j].idx)
       /\ \A m \in 0..(Len(index) - 1) :
            m \notin inRanked =>
              \A i \in 1..Len(ranked) :
                RankedBefore(ranked[i].s, ranked[i].idx,
                             DocScore(index[m + 1], args.query), m)

\* a tie kept in index order, a higher score moved ahead of it, one entry cut
C6_Witness ==
  /\ result.called
  /\ Len(PATH_INDEX.docs) = 3
  /\ Len(result.ranked) = 2
  /\ result.ranked[1].idx = 2
  /\ result.ranked[2].idx = 0
  /\ result.ranked[2].s = DocScore(PATH_INDEX.docs[2], args.query)

(* ---- C7 ---- *)

\* the places where a word of the lower-cased query starts
WordStarts(q) ==
  {i \in 1..Len(q) : IsWordChar(q[i]) /\ (i = 1 \/ ~IsWordChar(q[i - 1]))}

\* the word that starts at i: the longest run of word characters from there
WordAt(q, i) ==
  LET ends == {j \in i..Len(q) : \A m \in i..j : IsWordChar(q[m])}
  IN SubSeq(q, i, CHOOSE j \in ends : \A e \in ends : e <= j)

\* distinct query tokens that occur in the lower-cased text
DistinctHits(hay, query) ==
  LET q == toLowerCase(query)
  IN Cardinality({t \in {WordAt(q, i) : i \in WordStarts(q)} :
                    Includes(toLowerCase(hay), t)})

\* query tokens, each occurrence counted, that occur in the lower-cased text
OccurrenceHits(hay, query) ==
  LET q == toLowerCase(query)
  IN Cardinality({i \in WordStarts(q) : Includes(toLowerCase(hay), WordAt(q, i))})

\* C7 as stated: the score counts each DISTINCT query token once per field
C7_ScoreCountsDistinctTokens ==
  result.called =>
    \A i \in 1..Len(result.ranked) :
      result.ranked[i].s =
        2 * DistinctHits(result.ranked[i].doc.path, args.query)
          + DistinctHits(result.ranked[i].doc.preview, args.query)

\* C7 amended: the score counts every occurrence of a token in the query
C7_ScoreCountsTokenOccurrences ==
  result.called =>
    \A i \in 1..Len(result.ranked) :
      result.ranked[i].s =
        2 * OccurrenceHits(result.ranked[i].doc.path, args.query)
          + OccurrenceHits(result.ranked[i].doc.preview, args.query)

\* the query "a a" against a document whose path and preview both hold an a
C7_Witness ==
  /\ result.called
  /\ args.query = <<"a", " ", "a">>
  /\ \E i \in 1..Len(result.ranked) :
       /\ result.ranked[i].doc.path = <<"a", "&", "b">>
       /\ result.ranked[i].s = 4

(* ---- C2 ---- *)

\* a response body from which no usable index comes: not parseable, empty, not
\* an object, selected_indices missing or not an array, or an array none of
\* whose elements is an integer within [1, n]
NoUsableIndex(raw, n) ==
  \/ raw.kind \in {"none", "malformed"}
  \/ raw.v.t # "obj"
  \/ raw.v.a = <<>>
  \/ raw.v.a[1].t # "arr"
  \/ \A i \in 1..Len(raw.v.a[1].a) :
       LET x == Number(raw.v.a[1].a[i]) IN ~x.int \/ x.n < 1 \/ x.n > n

\* C2 as stated: a response with no usable index never makes the parsing step
\* raise (the handler goes on to the answer call) and selects exactly the first
\* min(3, candidate_count) candidates in rank order.
C2_FallbackNeverRaises ==
  \A r \in Reqs :
    (req[r].selReturned /\ NoUsableIndex(req[r].raw, Len(req[r].ranked))) =>
      /\ req[r].ansCalls = 1
      /\ req[r].logged # "TypeError"
      /\ req[r].sel.picked =
           [i \in 1..Len(Take(req[r].ranked, 3)) |-> req[r].ranked[i].doc]

\* C2 on the bodies that parse to something other than null: the fallback
\* applies and the handler goes on to the answer call
C2_FallbackUnlessNull ==
  \A r \in Reqs :
    (req[r].selReturned /\ NoUsableIndex(req[r].raw, Len(req[r].ranked))
       /\ req[r].raw # RawJson(JNull)) =>
      /\ req[r].ansCalls = 1
      /\ req[r].sel.chosenIdxes = Fallback(Len(req[r].ranked))
      /\ req[r].sel.picked =
           [i \in 1..Len(Take(req[r].ranked, 3)) |-> req[r].ranked[i].doc]

(* ---- C3 ---- *)

\* C3: on a 200 response that carries an answer, the Sources block lists the
\* paths of the selected documents, each once, numbered 1..n in selection
\* order, and the context blocks of the answer prompt are tagged with the same
\* paths in the same order, whatever the answer model returned.
C3_SourcesAreTheSelection ==
  \A r \in Reqs :
    (req[r].pc = "done" /\ req[r].status = 200 /\ req[r].advice # NoContentAdvice) =>
      LET picked == req[r].sel.picked
          sources == req[r].advice.sources
          ctx == req[r].answerMsgs.ctx
      IN /\ Len(sources) = Len(picked)
         /\ Len(ctx) = Len(picked)
         /\ DistinctPaths(picked)
         /\ \A i \in 1..Len(picked) :
              /\ sources[i].number = i
              /\ sources[i].bold = picked[i].path
              /\ ctx[i].tag = picked[i].path
              /\ picked[i] = req[r].ranked[req[r].sel.chosenIdxes[i]].doc
         /\ req[r].advice.answer = req[r].answerText

\* two documents selected against rank order, and an empty answer text
C3_Witness ==
  \E r \in Reqs :
    /\ req[r].pc = "done"
    /\ req[r].status = 200
    /\ req[r].sel.chosenIdxes = <<2, 1>>
    /\ req[r].answerText = <<>>
    /\ Len(req[r].advice.sources) = 2

(* ---- C5 ---- *)

\* C5: the cache is filled only by a load that succeeds; a failed read leaves it
\* empty and the next call reads again; once filled (also with zero documents)
\* the source is not read again, the cache never changes, and every later call
\* ranks exactly the cached documents.
C5_CacheOnlyOnSuccess ==
  [][ /\ PATH_INDEX.loaded => (PATH_INDEX' = PATH_INDEX /\ reads' = reads)
      /\ (~PATH_INDEX.loaded /\ PATH_INDEX'.loaded) =>
           /\ source.readable
           /\ PATH_INDEX'.docs = BuildIndex(source.rows)
           /\ reads' = reads + 1
      /\ (reads' # reads /\ ~source.readable) => ~PATH_INDEX'.loaded
      /\ \A r \in Reqs :
           req'[r].loads > req[r].loads =>
             /\ ~PATH_INDEX.loaded => reads' = reads + 1
             /\ PATH_INDEX.loaded =>
                  /\ Len(req'[r].ranked) = Len(PATH_INDEX.docs)
                  /\ \A i \in 1..Len(req'[r].ranked) :
                       req'[r].ranked[i].doc = PATH_INDEX.docs[req'[r].ranked[i].idx + 1]
    ]_vars

\* an empty index is cached, the file has since gained rows, and a later
\* request ranked without a second read, after an earlier read had failed
C5_Witness ==
  /\ PATH_INDEX = Cached(<<>>)
  /\ source = Readable(Corpus)
  /\ reads = 2
  /\ \A r \in Reqs : req[r].loads = 1
  /\ \E r \in Reqs : req[r].logged = "ENOENT"
  /\ \E r \in Reqs : req[r].advice = NoContentAdvice

(* ---- C9 ---- *)

NoCalls(rec) == rec.selCalls = 0 /\ rec.ansCalls = 0

\* C9: a request with the key missing ends 500 with the configuration advisory;
\* otherwise one whose question trims to nothing ends 400 asking for a question;
\* neither reads the index. One whose ranking is empty ends 200 with the
\* no-content advisory. None of the three issues a completion call.
C9_EarlyExitsIssueNoCall ==
  \A r \in Reqs :
    /\ (~apiKey /\ req[r].pc # "idle") =>
         /\ req[r].pc = "done" /\ req[r].status = 500
         /\ req[r].advice = ConfigAdvice
         /\ req[r].loads = 0 /\ NoCalls(req[r])
    /\ (apiKey /\ req[r].pc \notin {"idle", "body"}
          /\ Trim(UserScenario(req[r].body)) = <<>>) =>
         /\ req[r].pc = "done" /\ req[r].status = 400
         /\ req[r].advice = AskAdvice
         /\ req[r].loads = 0 /\ NoCalls(req[r])
    /\ (req[r].rankedAt /\ Len(req[r].ranked) = 0) =>
         /\ req[r].pc = "done" /\ req[r].status = 200
         /\ req[r].advice = NoContentAdvice
         /\ NoCalls(req[r])
    /\ reads <= Cardinality({q \in Reqs : req[q].loads > 0})

\* one request stopped at the empty question, another at the empty ranking
C9_Witness ==
  \E r, q \in Reqs :
    /\ req[r].status = 400 /\ req[r].body.userScenario = <<" ", " ">>
    /\ req[q].status = 200 /\ req[q].advice = NoContentAdvice

(* ---- C10 ---- *)

\* C10: a request issues at most one selection call and at most one answer
\* call, the answer call only after the selection call returned; a failed call
\* or an unreadable index ends the request 500 with the fixed advisory, which
\* carries nothing of the error; nothing is retried, and after a failed
\* selection call no answer call is issued.
C10_OneCallEachNoRetry ==
  \A r \in Reqs :
    /\ req[r].selCalls <= 1 /\ req[r].ansCalls <= 1
    /\ req[r].ansCalls = 1 => (req[r].selCalls = 1 /\ req[r].selReturned)
    /\ req[r].pc = "selector" => (req[r].selCalls = 1 /\ req[r].ansCalls = 0)
    /\ req[r].pc = "answer" => req[r].ansCalls = 1
    /\ req[r].logged # "" =>
         /\ req[r].pc = "done" /\ req[r].status = 500
         /\ req[r].advice = ServerErrorAdvice
    /\ (req[r].logged \in Errors /\ ~req[r].selReturned) => req[r].ansCalls = 0
    /\ (req[r].logged = "ENOENT") => NoCalls(req[r])

\* one request lost its selection call, another its answer call
C10_Witness ==
  \E r, q \in Reqs :
    /\ req[r].logged \in Errors /\ ~req[r].selReturned /\ req[r].selCalls = 1
    /\ req[q].logged \in Errors /\ req[q].ansCalls = 1 /\ req[q].status = 500

(* ---- C8 ---- *)

\* the handler has computed the question of request r
Asked(r) == apiKey /\ req[r].pc \notin {"idle", "body"}

\* q is what is left of window w when the white space at its ends is removed
IsTrimOf(q, w) ==
  IF q = <<>> THEN \A i \in 1..Len(w) : IsSpace(w[i])
  ELSE /\ ~IsSpace(q[1])
       /\ ~IsSpace(q[Len(q)])
       /\ \E lead \in 0..(Len(w) - Len(q)) :
            /\ \A i \in 1..lead : IsSpace(w[i])
            /\ \A i \in (lead + Len(q) + 1)..Len(w) : IsSpace(w[i])
            /\ SubSeq(w, lead + 1, lead + Len(q)) = q

\* the question is the one the emptiness check, the scoring and both prompts used
QuestionUsedThroughout(r) ==
  /\ req[r].question = <<>> <=> req[r].status = 400
  /\ req[r].rankedAt =>
       \A i \in 1..Len(req[r].ranked) :
         req[r].ranked[i].s = DocScore(req[r].ranked[i].doc, req[r].question)
  /\ req[r].selCalls = 1 => req[r].selectorMsgs.question = req[r].question
  /\ req[r].ansCalls = 1 => req[r].answerMsgs.question = req[r].question

\* C8 as stated: the question is the input trimmed first and then cut to its
\* first 1000 characters.
C8_TrimThenTruncate ==
  \A r \in Reqs :
    Asked(r) =>
      /\ req[r].question =
           Take(Trim(UserScenario(req[r].body)), MAX_QUESTION_LEN)
      /\ QuestionUsedThroughout(r)

\* C8 amended: the question is the first 1000 characters of the input with the
\* white space at the ends of that window removed; it never exceeds 1000
\* characters and over-length input is clamped, not rejected.
C8_TruncateThenTrim ==
  \A r \in Reqs :
    Asked(r) =>
      /\ Len(req[r].question) <= MAX_QUESTION_LEN
      /\ IsTrimOf(req[r].question,
                  Take(UserScenario(req[r].body), MAX_QUESTION_LEN))
      /\ QuestionUsedThroughout(r)
      /\ Len(UserScenario(req[r].body)) > MAX_QUESTION_LEN =>
           req[r].status \in {0, 200, 400, 500}

\* an input of a space and 1000 letters: the question is the 999 letters left
\* of the first 1000 characters, and it reached the answer prompt
C8_Witness ==
  \E r \in Reqs :
    /\ req[r].body.userScenario = <<" ">> \o Pad(MAX_QUESTION_LEN, "a")
    /\ req[r].ansCalls = 1
    /\ Len(req[r].answerMsgs.question) = MAX_QUESTION_LEN - 1

====
